---- MODULE Spec2Model ----
(***************************************************************************)
(* Wind-forecast window extraction and ranking (forecast_parser.py) and    *)
(* the entry points that drive it (ci_generate_report.py, main.py).        *)
(*                                                                         *)
(* Conventions of the model                                                *)
(*   - text is a sequence of one-character strings;                        *)
(*   - a float is an exact fraction [num, den]; den = 0 is NaN (the code   *)
(*     only ever produces NaN as 0/0 or by propagating a NaN/NaT);         *)
(*   - average speeds are kept in tenths of a knot (round(avg, 1));        *)
(*   - Start/End are minutes since 1900-01-01 00:00 (pandas' default year  *)
(*     for a format without %Y), or NaT.                                   *)
(***************************************************************************)
EXTENDS Integers, Sequences, FiniteSets, TLC

(***************************************************************************)
(* Bounds of the model.                                                    *)
(***************************************************************************)
MaxFiles == 3
MaxRows == 3

(***************************************************************************)
(* config.py                                                               *)
(***************************************************************************)
MIN_WIND_KNOTS == 15
MIN_BLOCK_LENGTH == 2
DAY_START_HOUR == 6
DAY_END_HOUR == 20
\* config.get("WIND_WEIGHT", 0.6), config.get("DURATION_WEIGHT", 0.4): tenths
WIND_WEIGHT == 6
DURATION_WEIGHT == 4

(***************************************************************************)
(* Generic helpers.                                                        *)
(***************************************************************************)
Digits == <<"0", "1", "2", "3", "4", "5", "6", "7", "8", "9">>

IsDigit(c) == \E k \in 1..10 : Digits[k] = c

DigitVal(c) == (CHOOSE k \in 1..10 : Digits[k] = c) - 1

\* Python slice val[a:b] (0-based, clipped to the length of val)
Slice(val, a, b) ==
  LET hi == IF b < Len(val) THEN b ELSE Len(val)
  IN  IF a >= hi THEN <<>> ELSE SubSeq(val, a + 1, hi)

\* '%02d'
Fmt2(n) == <<Digits[(n \div 10) + 1], Digits[(n % 10) + 1]>>

Min(S) == CHOOSE x \in S : \A y \in S : x <= y

Max(S) == CHOOSE x \in S : \A y \in S : x >= y

SumSeq(s) ==
  LET sum[k \in 0..Len(s)] == IF k = 0 THEN 0 ELSE sum[k - 1] + s[k]
  IN  sum[Len(s)]

IsLeap(y) == (y % 4 = 0 /\ y % 100 # 0) \/ y % 400 = 0

DaysInMonth(y, m) ==
  IF m = 2 THEN (IF IsLeap(y) THEN 29 ELSE 28)
  ELSE IF m \in {4, 6, 9, 11} THEN 30 ELSE 31

RECURSIVE GCD(_, _)
GCD(a, b) == IF b = 0 THEN a ELSE GCD(b, a % b)

\* the fraction num/den in lowest terms (num >= 0, den > 0); 0/0 is NaN
Frac(num, den) ==
  IF den = 0 THEN [num |-> 0, den |-> 0]
  ELSE [num |-> num \div GCD(num, den), den |-> den \div GCD(num, den)]

\* NaN of a float column, and the test pandas' isna() makes
NaN == [num |-> 0, den |-> 0]

IsNaN(f) == f.den = 0

\* a <= b on floats: False as soon as one side is NaN
FracLeq(a, b) == ~IsNaN(a) /\ ~IsNaN(b) /\ a.num * b.den <= b.num * a.den

FracEq(a, b) == ~IsNaN(a) /\ ~IsNaN(b) /\ a.num * b.den = b.num * a.den

(***************************************************************************)
(* parse_datetime                                                          *)
(***************************************************************************)
None == [none |-> TRUE]

IsNone(x) == x = None

IsSpace(c) == c = " "

\* str.strip()
Strip(s) ==
  LET inked == {k \in 1..Len(s) : ~IsSpace(s[k])}
  IN  IF inked = {} THEN <<>> ELSE SubSeq(s, Min(inked), Max(inked))

\* digits with single underscores between them (PEP 515)
IsDigitRun(s) ==
  /\ s # <<>>
  /\ \A k \in 1..Len(s) :
       \/ IsDigit(s[k])
       \/ s[k] = "_" /\ 1 < k /\ k < Len(s) /\ IsDigit(s[k - 1]) /\ IsDigit(s[k + 1])

\* the number a digit run writes
DigitRunVal(s) ==
  LET ds == SelectSeq(s, IsDigit)
      val[k \in 0..Len(ds)] == IF k = 0 THEN 0 ELSE 10 * val[k - 1] + DigitVal(ds[k])
  IN  val[Len(ds)]

\* int(str): surrounding whitespace, an optional sign, then digits.
\* The result is <<n>>, or <<>> for ValueError.
IntOf(s) ==
  LET t == Strip(s)
      signed == t # <<>> /\ Head(t) \in {"+", "-"}
      body == IF signed THEN Tail(t) ELSE t
  IN  IF ~IsDigitRun(body) THEN <<>>
      ELSE IF signed /\ Head(t) = "-" THEN <<0 - DigitRunVal(body)>>
      ELSE <<DigitRunVal(body)>>

\* datetime(year, month, day, hour, minute) raises ValueError out of range
ValidDatetime(y, m, d, h, mi) ==
  /\ d \in 1..DaysInMonth(y, m)
  /\ h \in 0..23
  /\ mi \in 0..59

\* parse_datetime without line 11: the minute is always 0
ParseDatetimeNoMinute(val, date) ==
  LET day == IntOf(Slice(val, 2, 4))
      hour == IntOf(Slice(val, 5, 7))
  IN  IF day = <<>> \/ hour = <<>> THEN None
      ELSE IF ~ValidDatetime(date.year, date.month, day[1], hour[1], 0)
      THEN None
      ELSE [year |-> date.year, month |-> date.month, day |-> day[1],
            hour |-> hour[1], minute |-> 0]

parse_datetime(val, date) ==
  LET day == IntOf(Slice(val, 2, 4))
      hour == IntOf(Slice(val, 5, 7))
      minute == IF Len(val) = 9 THEN IntOf(Slice(val, 7, 9)) ELSE <<0>>
  IN  IF day = <<>> \/ hour = <<>> \/ minute = <<>> THEN None
      ELSE IF ~ValidDatetime(date.year, date.month, day[1], hour[1], minute[1])
      THEN None
      ELSE [year |-> date.year, month |-> date.month, day |-> day[1],
            hour |-> hour[1], minute |-> minute[1]]

\* order of timestamps (lexicographic on the fields)
TsKey(ts) ==
  ((((ts.year * 12 + ts.month) * 31 + ts.day) * 24 + ts.hour) * 60) + ts.minute

TimeOfDay(ts) == ts.hour * 60 + ts.minute

(***************************************************************************)
(* circular_mean                                                           *)
(* Directions are whole degrees.  Sines and cosines are kept in            *)
(* ten-thousandths, angles in hundredths of a degree.                      *)
(***************************************************************************)
\* 10000 * sin(k degrees) for k = 0..90, at index k + 1
SinTable ==
  <<0, 175, 349, 523, 698, 872, 1045, 1219, 1392, 1564, 1736, 1908, 2079,
    2250, 2419, 2588, 2756, 2924, 3090, 3256, 3420, 3584, 3746, 3907, 4067,
    4226, 4384, 4540, 4695, 4848, 5000, 5150, 5299, 5446, 5592, 5736, 5878,
    6018, 6157, 6293, 6428, 6561, 6691, 6820, 6947, 7071, 7193, 7314, 7431,
    7547, 7660, 7771, 7880, 7986, 8090, 8192, 8290, 8387, 8480, 8572, 8660,
    8746, 8829, 8910, 8988, 9063, 9135, 9205, 9272, 9336, 9397, 9455, 9511,
    9563, 9613, 9659, 9703, 9744, 9781, 9816, 9848, 9877, 9903, 9925, 9945,
    9962, 9976, 9986, 9994, 9998, 10000>>

\* np.sin(np.deg2rad(d))
SinOf(d) ==
  LET e == d % 360
  IN  IF e <= 90 THEN SinTable[e + 1]
      ELSE IF e <= 180 THEN SinTable[180 - e + 1]
      ELSE IF e <= 270 THEN 0 - SinTable[e - 180 + 1]
      ELSE 0 - SinTable[360 - e + 1]

\* np.cos(np.deg2rad(d))
CosOf(d) == SinOf(d + 90)

\* arctan2(y, x) of the first quadrant (x, y >= 0), hundredths of a degree:
\* the whole degree k with the direction of (x, y) in [k, k + 1), then the
\* part of a degree in proportion to the sines of the two differences.
\* The result is within a hundredth of a degree of the floating-point one
\* unless the summed vectors nearly cancel.
ArcTan2Pos(y, x) ==
  IF x = 0 /\ y = 0 THEN 0
  ELSE LET Cross(j) == y * CosOf(j) - x * SinOf(j)
           k == CHOOSE j \in 0..90 :
                  Cross(j) >= 0 /\ (j = 90 \/ Cross(j + 1) < 0)
       IN  IF k = 90 THEN 9000
           ELSE 100 * k + (100 * Cross(k)) \div (Cross(k) - Cross(k + 1))

\* np.rad2deg(np.arctan2(y, x)), in (-180, 180], hundredths of a degree
ArcTan2(y, x) ==
  LET ay == IF y < 0 THEN 0 - y ELSE y
      ax == IF x < 0 THEN 0 - x ELSE x
      a == ArcTan2Pos(ay, ax)
      b == IF x < 0 THEN 18000 - a ELSE a
  IN  IF y < 0 THEN 0 - b ELSE b

\* the mean of the numbers of degrees
ArithmeticMean(degrees_series) ==
  IF degrees_series = <<>> THEN 0
  ELSE (100 * SumSeq(degrees_series)) \div Len(degrees_series)

circular_mean(degrees_series) ==
  LET sin_sum == SumSeq([k \in 1..Len(degrees_series) |-> SinOf(degrees_series[k])])
      cos_sum == SumSeq([k \in 1..Len(degrees_series) |-> CosOf(degrees_series[k])])
      mean_angle == ArcTan2(sin_sum, cos_sum)
  IN  (mean_angle + 36000) % 36000

\* round(a / b) of Python and numpy: ties go to the even neighbour (a >= 0, b > 0)
RoundDiv(a, b) ==
  LET q == a \div b
      r == a % b
  IN  IF 2 * r < b THEN q
      ELSE IF 2 * r > b THEN q + 1
      ELSE IF q % 2 = 0 THEN q ELSE q + 1

(***************************************************************************)
(* is_valid_window                                                         *)
(* A frame is [rows, datetimelike]: rows is the sequence of observations,  *)
(* datetimelike tells whether the "datetime" column has a datetime dtype   *)
(* (pandas infers it only when at least one token parsed).                 *)
(***************************************************************************)
Col(rows, f) == [k \in 1..Len(rows) |-> rows[k][f]]

\* a daytime filter that leaves out the end of the day
InDaytimeEndExclusive(r) ==
  LET t == TimeOfDay(r.datetime)
      lo == DAY_START_HOUR * 60
      hi == DAY_END_HOUR * 60
  IN  IF lo <= hi THEN lo <= t /\ t < hi ELSE lo <= t \/ t < hi

\* DataFrame.between_time(start, end), inclusive="both"
InDaytime(r) ==
  LET t == TimeOfDay(r.datetime)
      lo == DAY_START_HOUR * 60
      hi == DAY_END_HOUR * 60
  IN  IF lo <= hi THEN lo <= t /\ t <= hi ELSE lo <= t \/ t <= hi

between_time(rows) == SelectSeq(rows, InDaytime)

StrongWind(r) == r.wind_speed >= MIN_WIND_KNOTS

speed_filter(rows) == SelectSeq(rows, StrongWind)

Qualifying(rows) == speed_filter(between_time(rows))

IndexMin(rows) ==
  LET k == CHOOSE i \in 1..Len(rows) :
             \A j \in 1..Len(rows) : TsKey(rows[i].datetime) <= TsKey(rows[j].datetime)
  IN  rows[k].datetime

\* a span that ends at the last row of the subset
IndexLast(rows) == rows[Len(rows)].datetime

IndexMax(rows) ==
  LET k == CHOOSE i \in 1..Len(rows) :
             \A j \in 1..Len(rows) : TsKey(rows[i].datetime) >= TsKey(rows[j].datetime)
  IN  rows[k].datetime

\* strftime('%d/%m %H:%M') + "-" + strftime('%H:%M')
FormatWindow(lo, hi) ==
  Fmt2(lo.day) \o <<"/">> \o Fmt2(lo.month) \o <<" ">> \o Fmt2(lo.hour)
    \o <<":">> \o Fmt2(lo.minute) \o <<"-">> \o Fmt2(hi.hour) \o <<":">>
    \o Fmt2(hi.minute)

NoWindow == [window |-> None, avg |-> None, dir |-> None]

Raised == [raised |-> TRUE]

\* a detector that asks for more than MIN_BLOCK_LENGTH observations
WindowOfStrict(q) ==
  IF Len(q) > MIN_BLOCK_LENGTH
  THEN [window |-> FormatWindow(IndexMin(q), IndexMax(q)),
        avg |-> RoundDiv(10 * SumSeq(Col(q, "wind_speed")), Len(q)),
        dir |-> circular_mean(Col(q, "wind_dir"))]
  ELSE NoWindow

\* lines 28-33
WindowOf(q) ==
  IF Len(q) >= MIN_BLOCK_LENGTH
  THEN [window |-> FormatWindow(IndexMin(q), IndexMax(q)),
        avg |-> RoundDiv(10 * SumSeq(Col(q, "wind_speed")), Len(q)),
        dir |-> circular_mean(Col(q, "wind_dir"))]
  ELSE NoWindow

is_valid_window(df) ==
  IF ~df.datetimelike THEN Raised   \* between_time: Index must be DatetimeIndex
  ELSE WindowOf(Qualifying(df.rows))

(***************************************************************************)
(* Summary ranker: process_forecasts, lines 110-135                        *)
(***************************************************************************)
NaT == [nat |-> TRUE, t |-> 0]

IsNaT(x) == x.nat

AllDigits(s) == \A k \in 1..Len(s) : IsDigit(s[k])

\* Series.str.extract(r'(\d{2}/\d{2}) (\d{2}):(\d{2})-(\d{2}):(\d{2})'):
\* the five groups of the first match, or None (a row of NaN) without match.
\* A window string has exactly the length of the pattern.
MatchesAt(w, o) ==
  /\ Len(w) >= o + 17
  /\ AllDigits(SubSeq(w, o + 1, o + 2)) /\ w[o + 3] = "/"
  /\ AllDigits(SubSeq(w, o + 4, o + 5)) /\ w[o + 6] = " "
  /\ AllDigits(SubSeq(w, o + 7, o + 8)) /\ w[o + 9] = ":"
  /\ AllDigits(SubSeq(w, o + 10, o + 11)) /\ w[o + 12] = "-"
  /\ AllDigits(SubSeq(w, o + 13, o + 14)) /\ w[o + 15] = ":"
  /\ AllDigits(SubSeq(w, o + 16, o + 17))

str_extract(w) ==
  IF \E o \in 0..Len(w) : MatchesAt(w, o)
  THEN LET o == CHOOSE o \in 0..Len(w) :
                  MatchesAt(w, o) /\ \A p \in 0..(o - 1) : ~MatchesAt(w, p)
       IN  <<SubSeq(w, o + 1, o + 5), SubSeq(w, o + 7, o + 8),
             SubSeq(w, o + 10, o + 11), SubSeq(w, o + 13, o + 14),
             SubSeq(w, o + 16, o + 17)>>
  ELSE None

\* f"{x[0]} {x[1]}:{x[2]}" and f"{x[0]} {x[3]}:{x[4]}"
start_str(x) == IF IsNone(x) THEN <<"n", "a", "n">> ELSE x[1] \o <<" ">> \o x[2] \o <<":">> \o x[3]

end_str(x) == IF IsNone(x) THEN <<"n", "a", "n">> ELSE x[1] \o <<" ">> \o x[4] \o <<":">> \o x[5]

\* days of 1900 (not a leap year) before the first day of month m
DaysBefore1900(m) == SumSeq([k \in 1..(m - 1) |-> DaysInMonth(1900, k)])

\* pd.to_datetime(s, format="%d/%m %H:%M", errors='coerce'): the year
\* defaults to 1900; a string that does not name a date of 1900 gives NaT
to_datetime(s) ==
  IF ~(Len(s) = 11 /\ AllDigits(SubSeq(s, 1, 2)) /\ s[3] = "/"
        /\ AllDigits(SubSeq(s, 4, 5)) /\ s[6] = " " /\ AllDigits(SubSeq(s, 7, 8))
        /\ s[9] = ":" /\ AllDigits(SubSeq(s, 10, 11)))
  THEN NaT
  ELSE LET d == DigitRunVal(SubSeq(s, 1, 2))
           m == DigitRunVal(SubSeq(s, 4, 5))
           h == DigitRunVal(SubSeq(s, 7, 8))
           mi == DigitRunVal(SubSeq(s, 10, 11))
       IN  IF m \in 1..12 /\ ValidDatetime(1900, m, d, h, mi)
           THEN [nat |-> FALSE,
                 t |-> ((DaysBefore1900(m) + d - 1) * 24 + h) * 60 + mi]
           ELSE NaT

\* a ranker without the overnight correction
AdjustEndNever(start, end) == end

\* df.loc[End < Start, "End"] += 1 day   (a comparison with NaT is False)
AdjustEnd(start, end) ==
  IF ~IsNaT(start) /\ ~IsNaT(end) /\ end.t < start.t
  THEN [nat |-> FALSE, t |-> end.t + 24 * 60]
  ELSE end

\* (End - Start).dt.total_seconds() / 3600, as minutes over 60
DurationOf(start, end) ==
  IF IsNaT(start) \/ IsNaT(end) THEN NaN ELSE Frac(end.t - start.t, 60)

\* lines 115-124 for one row
WithDuration(b) ==
  LET x == str_extract(b.Window)
      start == to_datetime(start_str(x))
      end == AdjustEnd(start, to_datetime(end_str(x)))
  IN  [Site |-> b.Site, Window |-> b.Window, Avg |-> b.Avg, Dir |-> b.Dir,
       Start |-> start, End |-> end, Duration |-> DurationOf(start, end)]

\* (x - min) / (max - min) over the values of a column that are not NaN
\* (Series.min and Series.max skip NaN); vals are in a common unit,
\* x is <<v>> or <<>> for NaN
MinMaxNorm(x, vals) ==
  IF x = <<>> \/ vals = {} THEN NaN
  ELSE Frac(x[1] - Min(vals), Max(vals) - Min(vals))

\* wind_weight * Norm_Wind + duration_weight * Norm_Duration
ScoreOf(nw, nd) ==
  IF IsNaN(nw) \/ IsNaN(nd) THEN NaN
  ELSE Frac(WIND_WEIGHT * nw.num * nd.den + DURATION_WEIGHT * nd.num * nw.den,
            10 * nw.den * nd.den)

\* a Duration in minutes
Minutes(d) == (d.num * 60) \div d.den

DurVal(r) == IF IsNaN(r.Duration) THEN <<>> ELSE <<Minutes(r.Duration)>>

\* lines 127-133 for one row of the table rows
WithScore(r, rows) ==
  LET avgs == {rows[k].Avg : k \in 1..Len(rows)}
      durs == {Minutes(rows[k].Duration) : k \in {j \in 1..Len(rows) : ~IsNaN(rows[j].Duration)}}
      nw == MinMaxNorm(<<r.Avg>>, avgs)
      nd == MinMaxNorm(DurVal(r), durs)
  IN  [Site |-> r.Site, Window |-> r.Window, Avg |-> r.Avg, Dir |-> r.Dir,
       Start |-> r.Start, End |-> r.End, Duration |-> r.Duration,
       Norm_Wind |-> nw, Norm_Duration |-> nd, Score |-> ScoreOf(nw, nd)]

HasScore(r) == ~IsNaN(r.Score)

LacksScore(r) == IsNaN(r.Score)

ScoreGeq(a, b) == a.Score.num * b.Score.den >= b.Score.num * a.Score.den

\* the indices of rows with (without) a Score, in increasing order
IndicesWhere(rows, withScore) ==
  LET HasIt(k) == HasScore(rows[k]) = withScore
  IN  SelectSeq([k \in 1..Len(rows) |-> k], HasIt)

\* a sort that leaves out the rows without a Score
SortDroppingNaN(rows) ==
  LET scored == IndicesWhere(rows, TRUE)
      m == Len(scored)
      orders == {f \in [1..m -> 1..m] :
                   /\ \A i, j \in 1..m : i # j => f[i] # f[j]
                   /\ \A i \in 1..(m - 1) :
                        ScoreGeq(rows[scored[f[i]]], rows[scored[f[i + 1]]])}
  IN  {[k \in 1..m |-> rows[scored[f[k]]]] : f \in orders}

\* sort_values(by="Score", ascending=False), kind="quicksort",
\* na_position="last": the rows with a Score in descending order, then the
\* rows whose Score is NaN in their previous order.  quicksort is not a
\* stable sort, so rows of equal Score may come out in any order.
sort_values(rows) ==
  LET scored == IndicesWhere(rows, TRUE)
      nans == IndicesWhere(rows, FALSE)
      m == Len(scored)
      orders == {f \in [1..m -> 1..m] :
                   /\ \A i, j \in 1..m : i # j => f[i] # f[j]
                   /\ \A i \in 1..(m - 1) :
                        ScoreGeq(rows[scored[f[i]]], rows[scored[f[i + 1]]])}
  IN  {[k \in 1..m |-> rows[scored[f[k]]]] \o [k \in 1..Len(nans) |-> rows[nans[k]]] :
         f \in orders}

\* the table before the final sort (lines 110-133)
Scored(blocks) ==
  LET timed == [k \in 1..Len(blocks) |-> WithDuration(blocks[k])] \o <<>>
  IN  [k \in 1..Len(timed) |-> WithScore(timed[k], timed)] \o <<>>

\* the tables process_forecasts can return for the collected blocks
Rank(blocks) ==
  IF blocks = <<>> THEN {<<>>}
  ELSE sort_values(Scored(blocks))

(***************************************************************************)
(* Site pipeline: the body of the loop of process_forecasts, lines 88-108  *)
(* A raw row is [datetime_raw, wind_speed, wind_dir, wind_gust]; the       *)
(* token is text, a measurement cell is <<n>> for numeric text and <<>>    *)
(* for text that is not a number.                                          *)
(***************************************************************************)
Parsed(rows, date) ==
  [k \in 1..Len(rows) |->
     [datetime |-> parse_datetime(rows[k].datetime_raw, date),
      wind_speed |-> rows[k].wind_speed, wind_dir |-> rows[k].wind_dir,
      wind_gust |-> rows[k].wind_gust]]

HasDatetime(r) == ~IsNone(r.datetime)

\* a cleaning that also drops the rows below MIN_WIND_KNOTS
AllNumericAndStrong(r) ==
  /\ r.wind_speed # <<>> /\ r.wind_dir # <<>> /\ r.wind_gust # <<>>
  /\ r.wind_speed[1] >= MIN_WIND_KNOTS

\* pd.to_numeric(errors='coerce') then dropna(): a row survives when all
\* three measurements are numbers
AllNumeric(r) == r.wind_speed # <<>> /\ r.wind_dir # <<>> /\ r.wind_gust # <<>>

Numeric(r) ==
  [datetime |-> r.datetime, wind_speed |-> r.wind_speed[1],
   wind_dir |-> r.wind_dir[1], wind_gust |-> r.wind_gust[1]]

\* lines 91-95: the cleaned frame of a readable file
CleanFrame(rows, date) ==
  LET parsed == Parsed(rows, date)
      kept == SelectSeq(SelectSeq(parsed, HasDatetime), AllNumeric)
  IN  [rows |-> [k \in 1..Len(kept) |-> Numeric(kept[k])],
       datetimelike |-> \E k \in 1..Len(parsed) : HasDatetime(parsed[k])]

(***************************************************************************)
(* The inputs of a run: the day of the run and the forecast archive.      *)
(***************************************************************************)
Todays == {[year |-> 2025, month |-> 5], [year |-> 2024, month |-> 2]}

Token(d, h, mi) == <<"T", "h">> \o Fmt2(d) \o <<".">> \o Fmt2(h) \o Fmt2(mi)

Row(d, h, mi, speed, dir) ==
  [datetime_raw |-> Token(d, h, mi), wind_speed |-> <<speed>>,
   wind_dir |-> <<dir>>, wind_gust |-> <<speed + 3>>]

\* every speed below MIN_WIND_KNOTS
Calm == <<Row(28, 10, 0, 10, 0), Row(28, 11, 0, 12, 90)>>

Morning == <<Row(28, 10, 0, 16, 0), Row(28, 12, 0, 20, 90)>>

\* qualifying rows on two days, the later day listed first
TwoDays == <<Row(29, 12, 0, 16, 90), Row(28, 10, 0, 16, 0)>>

\* qualifying rows on two days, the last one earlier in the day than the first
Overnight == <<Row(28, 18, 0, 17, 0), Row(29, 7, 0, 17, 0)>>

\* a window that starts on the 29th
LastDay == <<Row(29, 10, 0, 16, 0), Row(29, 13, 0, 20, 0)>>

\* rows on the bounds of the day, just outside them, and rows to be dropped
Dirty ==
  <<Row(28, 20, 0, 15, 90), Row(28, 20, 1, 25, 0), Row(28, 5, 59, 25, 0),
    [datetime_raw |-> <<"T", "h", "x", "x", ".", "1", "2", "0", "0">>,
     wind_speed |-> <<30>>, wind_dir |-> <<0>>, wind_gust |-> <<33>>],
    [datetime_raw |-> Token(28, 12, 0), wind_speed |-> <<30>>,
     wind_dir |-> <<0>>, wind_gust |-> <<>>],
    Row(28, 6, 0, 15, 90)>>

\* wind from just west of north and from north
Northerly ==
  <<Row(28, 10, 0, 16, 359), Row(28, 11, 0, 16, 0), Row(28, 12, 0, 16, 0)>>

\* the file contents a run can meet, by name; "Unreadable" is a file that
\* pd.read_csv cannot read
ContentNames ==
  {"Calm", "Morning", "TwoDays", "Overnight", "LastDay", "Dirty", "Northerly",
   "Unreadable"}

RowsOf(content) ==
  CASE content = "Calm" -> Calm
    [] content = "Morning" -> Morning
    [] content = "TwoDays" -> TwoDays
    [] content = "Overnight" -> Overnight
    [] content = "LastDay" -> LastDay
    [] content = "Dirty" -> Dirty
    [] content = "Northerly" -> Northerly
    [] OTHER -> <<>>

Readable(content) == content # "Unreadable"

\* the forecast of each site of the model; sites are named by their rank in
\* the order of strings, and the first two have the same forecast
ContentOf ==
  <<"Morning", "Morning", "Calm", "TwoDays", "Overnight", "LastDay", "Dirty",
    "Unreadable", "Northerly">>

Sites == 1..Len(ContentOf)

\* the files an archive can hold: the site files "<site>.csv" and a file that
\* is no csv.  A tree can hold a file name more than once, in different
\* directories.
Files ==
  {[csv |-> TRUE, site |-> n, content |-> ContentOf[n]] : n \in Sites}
  \cup {[csv |-> FALSE, site |-> 1, content |-> ContentOf[1]]}

\* the outcome of one site file: Raised, NoWindow or a window
OutcomeOf(content, date) ==
  IF ~Readable(content) THEN Raised     \* pd.read_csv raises
  ELSE is_valid_window(CleanFrame(RowsOf(content), date))

\* OutcomeOf, tabulated once for the contents and dates of the model
SiteOutcomes ==
  {[date |-> t, content |-> c, outcome |-> OutcomeOf(c, t)] :
     t \in Todays, c \in ContentNames}

\* the earliest and the latest timestamp of the qualifying subset of a
\* readable content (lines 24-26, 30-31), tabulated like SiteOutcomes
SiteSpans ==
  LET q(c, t) == Qualifying(CleanFrame(RowsOf(c), t).rows)
      pairs == {e \in [date : Todays, content : ContentNames] :
                  Readable(e.content) /\ q(e.content, e.date) # <<>>}
  IN  {[date |-> e.date, content |-> e.content,
        lo |-> IndexMin(q(e.content, e.date)),
        hi |-> IndexMax(q(e.content, e.date))] : e \in pairs}

SpanOf(file, date) ==
  CHOOSE e \in SiteSpans : e.date = date /\ e.content = file.content

SiteOutcome(file, date) ==
  (CHOOSE e \in SiteOutcomes : e.date = date /\ e.content = file.content).outcome

IsWindow(o) == o # Raised /\ ~IsNone(o.window)

\* lines 101-106
Block(file, o) ==
  [Site |-> file.site, Window |-> o.window, Avg |-> o.avg,
   Dir |-> RoundDiv(o.dir, 100)]

\* directory trees, as the sequence of files in the order os.walk yields them
Archives == UNION {[1..n -> Files] : n \in 0..MaxFiles}

(***************************************************************************)
(* State.                                                                  *)
(***************************************************************************)
VARIABLES
  today,           \* year and month of datetime.today()
  run,             \* number of the run of main, from 1
  download,        \* how download_latest_forecast_zip ended in this run
  extract_dir,     \* the files under EXTRACT_DIR, in os.walk order
  pc,              \* position of ci_generate_report.main
  idx,             \* number of files the loop of process_forecasts has visited
  summary_blocks,  \* process_forecasts: the blocks collected so far
  df_summary,      \* the table process_forecasts returned
  graphs,          \* sites with a plot under GRAPH_DIR
  errors,          \* the files reported by line 108, in order
  csv,             \* content of CSV_SUMMARY: <<rows>> once written
  html,            \* what was written at HTML_REPORT
  effects,         \* main.py: the outputs made and the messages sent, in order
  w_df,            \* is_valid_window on its own: the frame passed in
  w_pc,            \* ... position in is_valid_window
  w_sub,           \* ... the rows kept so far
  w_out,           \* ... the value returned
  p_val,           \* parse_datetime on its own: the token passed in
  p_pc,            \* ... position in parse_datetime
  p_out,           \* ... the value returned
  m_series,        \* circular_mean on its own: the directions passed in
  m_pc,            \* ... position in circular_mean
  m_out,           \* ... the value returned, hundredths of a degree
  c_raw,           \* lines 91-98 on their own: the rows read_csv returned
  c_pc,            \* ... position in the body of the loop
  c_df,            \* ... the frame df
  c_out            \* ... what is_valid_window returned

pipeline_vars ==
  <<today, run, download, extract_dir, pc, idx, summary_blocks, df_summary,
    graphs, errors, csv, html, effects>>

window_vars == <<w_df, w_pc, w_sub, w_out>>

parse_vars == <<p_val, p_pc, p_out>>

mean_vars == <<m_series, m_pc, m_out>>

clean_vars == <<c_raw, c_pc, c_df, c_out>>

\* the variables of the functions taken on their own
unit_vars == <<window_vars, parse_vars, mean_vars, clean_vars>>

vars == <<pipeline_vars, unit_vars>>

(***************************************************************************)
(* ci_generate_report.main, with process_forecasts unfolded file by file.  *)
(***************************************************************************)
\* the keys of CONFIG in config.py
CONFIG_KEYS ==
  {"ZIP_URL", "ZIP_FILE", "EXTRACT_DIR", "GRAPH_DIR", "COLLAGE_FILE",
   "CSV_SUMMARY", "TABLE_IMAGE", "TABLE_ROWS_PER_IMAGE", "BOT_TOKEN",
   "CHAT_ID_raz", "CHAT_ID", "MIN_WIND_KNOTS", "MIN_BLOCK_LENGTH",
   "DAY_START_HOUR", "DAY_END_HOUR", "TOP_SITES_TO_SEND"}

NotCalled == [called |-> FALSE]

WindowIdle ==
  /\ w_df = [rows |-> <<>>, datetimelike |-> FALSE]
  /\ w_pc = "idle"
  /\ w_sub = <<>>
  /\ w_out = NotCalled

ParseIdle ==
  /\ p_val = <<>>
  /\ p_pc = "idle"
  /\ p_out = None

MeanIdle ==
  /\ m_series = <<>>
  /\ m_pc = "idle"
  /\ m_out = 0

CleanIdle ==
  /\ c_raw = <<>>
  /\ c_pc = "idle"
  /\ c_df = [rows |-> <<>>, datetimelike |-> FALSE]
  /\ c_out = NotCalled

\* the first run, on a machine whose EXTRACT_DIR is empty
Init ==
  /\ today \in Todays
  /\ run = 1
  /\ download = "none"
  /\ extract_dir = <<>>
  /\ pc = "start"
  /\ idx = 0
  /\ summary_blocks = <<>>
  /\ df_summary = <<>>
  /\ graphs = {}
  /\ errors = <<>>
  /\ csv = <<>>
  /\ html = "none"
  /\ effects = <<>>
  /\ WindowIdle /\ ParseIdle /\ MeanIdle /\ CleanIdle

\* write_fallback(message) and the return that follows it:
\* CONFIG["HTML_REPORT"] raises KeyError when the key is missing
WriteFallback ==
  IF "HTML_REPORT" \in CONFIG_KEYS
  THEN html' = "fallback" /\ pc' = "done"
  ELSE html' = html /\ pc' = "raised"

\* download_latest_forecast_zip raises (page or archive not reachable)
DownloadRaises ==
  /\ pc = "start"
  /\ download' = "raised"
  /\ WriteFallback
  /\ UNCHANGED <<today, run, extract_dir, idx, summary_blocks, df_summary,
                 graphs, errors, csv>>
  /\ UNCHANGED <<effects, unit_vars>>

\* the archive request answers with a status other than 200: fetch.py returns
DownloadNot200 ==
  /\ pc = "start"
  /\ download' = "not200"
  /\ pc' = "process"
  /\ UNCHANGED <<today, run, extract_dir, idx, summary_blocks, df_summary,
                 graphs, errors, csv, html>>
  /\ UNCHANGED <<effects, unit_vars>>

\* the archive, one of archives, is downloaded and its files replace the
\* content of EXTRACT_DIR
Extract(archives) ==
  /\ pc = "start"
  /\ \E archive \in archives : extract_dir' = archive
  /\ download' = "ok"
  /\ pc' = "process"
  /\ UNCHANGED <<today, run, idx, summary_blocks, df_summary, graphs, errors, csv, html>>
  /\ UNCHANGED <<effects, unit_vars>>

DownloadOk == Extract(Archives)

NextFile == extract_dir[idx + 1]

InLoop == pc = "process" /\ idx < Len(extract_dir)

\* line 88: a file that is no .csv is passed over
SkipFile ==
  /\ InLoop
  /\ ~NextFile.csv
  /\ idx' = idx + 1
  /\ UNCHANGED <<today, run, download, extract_dir, pc, summary_blocks, df_summary,
                 graphs, errors, csv, html>>
  /\ UNCHANGED <<effects, unit_vars>>

\* a loop whose try statement surrounds the whole loop: a file that raises
\* ends it
ProcessFileAborting ==
  /\ InLoop
  /\ NextFile.csv
  /\ LET o == SiteOutcome(NextFile, today)
     IN  IF o = Raised
         THEN /\ errors' = Append(errors, NextFile.site)
              /\ idx' = Len(extract_dir)
              /\ UNCHANGED <<graphs, summary_blocks>>
         ELSE IF IsWindow(o)
         THEN /\ graphs' = graphs \cup {NextFile.site}
              /\ summary_blocks' = Append(summary_blocks, Block(NextFile, o))
              /\ idx' = idx + 1
              /\ UNCHANGED errors
         ELSE idx' = idx + 1 /\ UNCHANGED <<graphs, summary_blocks, errors>>
  /\ UNCHANGED <<today, run, download, extract_dir, pc, df_summary, csv, html>>
  /\ UNCHANGED <<effects, unit_vars>>

\* lines 89-108: one site file.  A file that raises is reported and passed
\* over; a window saves the plot of the site and appends its block.
ProcessFile ==
  /\ InLoop
  /\ NextFile.csv
  /\ LET o == SiteOutcome(NextFile, today)
     IN  IF o = Raised
         THEN /\ errors' = Append(errors, NextFile.site)
              /\ UNCHANGED <<graphs, summary_blocks>>
         ELSE IF IsWindow(o)
         THEN /\ graphs' = graphs \cup {NextFile.site}
              /\ summary_blocks' = Append(summary_blocks, Block(NextFile, o))
              /\ UNCHANGED errors
         ELSE UNCHANGED <<graphs, summary_blocks, errors>>
  /\ idx' = idx + 1
  /\ UNCHANGED <<today, run, download, extract_dir, pc, df_summary, csv, html>>
  /\ UNCHANGED <<effects, unit_vars>>

\* lines 110-135: process_forecasts returns the ranked table
RankSummary ==
  /\ pc = "process"
  /\ idx = Len(extract_dir)
  /\ df_summary' \in Rank(summary_blocks)
  /\ pc' = "ranked"
  /\ UNCHANGED <<today, run, download, extract_dir, idx, summary_blocks, graphs, errors, csv, html>>
  /\ UNCHANGED <<effects, unit_vars>>

\* ci_generate_report.py lines 62-65
NoWind ==
  /\ pc = "ranked"
  /\ df_summary = <<>>
  /\ WriteFallback
  /\ UNCHANGED <<today, run, download, extract_dir, idx, summary_blocks, df_summary,
                 graphs, errors, csv>>
  /\ UNCHANGED <<effects, unit_vars>>

\* DataFrame.to_csv(index=False): one line per row, in the order of the table
to_csv(rows) ==
  [k \in 1..Len(rows) |->
     <<rows[k].Site, rows[k].Window, rows[k].Avg, rows[k].Dir, rows[k].Start,
       rows[k].End, rows[k].Duration, rows[k].Norm_Wind, rows[k].Norm_Duration,
       rows[k].Score>>]

\* ci_generate_report.py line 67
ExportCsv ==
  /\ pc = "ranked"
  /\ df_summary # <<>>
  /\ csv' = <<to_csv(df_summary)>>
  /\ pc' = "exported"
  /\ UNCHANGED <<today, run, download, extract_dir, idx, summary_blocks, df_summary,
                 graphs, errors, html>>
  /\ UNCHANGED <<effects, unit_vars>>

\* ci_generate_report.py line 68: the argument CONFIG["HTML_REPORT"] is
\* evaluated before generate_html_report is entered
GenerateReport ==
  /\ pc = "exported"
  /\ IF "HTML_REPORT" \in CONFIG_KEYS
     THEN html' = "report" /\ pc' = "done"
     ELSE html' = html /\ pc' = "raised"
  /\ UNCHANGED <<today, run, download, extract_dir, idx, summary_blocks, df_summary,
                 graphs, errors, csv>>
  /\ UNCHANGED <<effects, unit_vars>>

Next ==
  \/ DownloadRaises
  \/ DownloadNot200
  \/ DownloadOk
  \/ SkipFile
  \/ ProcessFile
  \/ RankSummary
  \/ NoWind
  \/ ExportCsv
  \/ GenerateReport

Spec == Init /\ [][Next]_vars

(***************************************************************************)
(* is_valid_window on its own, step by step, for every small frame.        *)
(***************************************************************************)
WindowDays == {28, 29}

WindowTimes == {<<5, 59>>, <<6, 0>>, <<20, 0>>, <<20, 1>>}

WindowSpeeds == {14, 15, 16}

WindowDirs == {90}

\* the day after the first one has observations of one speed only
WindowLateSpeeds == {15}

Observations ==
  {o \in
     {[datetime |-> [year |-> 2025, month |-> 5, day |-> d, hour |-> t[1], minute |-> t[2]],
       wind_speed |-> s, wind_dir |-> w, wind_gust |-> s + 3] :
        d \in WindowDays, t \in WindowTimes, s \in WindowSpeeds, w \in WindowDirs} :
     o.datetime.day = 28 \/ o.wind_speed \in WindowLateSpeeds}

Frames ==
  {[rows |-> r, datetimelike |-> b] :
     r \in UNION {[1..n -> Observations] : n \in 0..MaxRows}, b \in BOOLEAN}

\* no run of main
RunIdle ==
  /\ run = 1
  /\ download = "none"
  /\ extract_dir = <<>>
  /\ pc = "idle"
  /\ idx = 0
  /\ summary_blocks = <<>>
  /\ df_summary = <<>>
  /\ graphs = {}
  /\ errors = <<>>
  /\ csv = <<>>
  /\ html = "none"
  /\ effects = <<>>

PipelineIdle == today = [year |-> 2025, month |-> 5] /\ RunIdle

\* a frame with rows has a datetime index; an empty one may lack it
InitWindow ==
  /\ PipelineIdle
  /\ ParseIdle /\ MeanIdle /\ CleanIdle
  /\ w_df \in Frames
  /\ w_df.rows # <<>> => w_df.datetimelike
  /\ w_pc = "call"
  /\ w_sub = <<>>
  /\ w_out = NotCalled

\* line 25 on a frame whose index is no DatetimeIndex: TypeError
WNoIndex ==
  /\ w_pc = "call"
  /\ ~w_df.datetimelike
  /\ w_out' = Raised
  /\ w_pc' = "done"
  /\ UNCHANGED <<w_df, w_sub>>
  /\ UNCHANGED <<pipeline_vars, parse_vars, mean_vars, clean_vars>>

\* lines 24-25
WBetweenTime ==
  /\ w_pc = "call"
  /\ w_df.datetimelike
  /\ w_sub' = between_time(w_df.rows)
  /\ w_pc' = "daytime"
  /\ UNCHANGED <<w_df, w_out>>
  /\ UNCHANGED <<pipeline_vars, parse_vars, mean_vars, clean_vars>>

\* line 26
WSpeedFilter ==
  /\ w_pc = "daytime"
  /\ w_sub' = speed_filter(w_sub)
  /\ w_pc' = "strong"
  /\ UNCHANGED <<w_df, w_out>>
  /\ UNCHANGED <<pipeline_vars, parse_vars, mean_vars, clean_vars>>

\* lines 28-33
WReturn ==
  /\ w_pc = "strong"
  /\ w_out' = WindowOf(w_sub)
  /\ w_pc' = "done"
  /\ UNCHANGED <<w_df, w_sub>>
  /\ UNCHANGED <<pipeline_vars, parse_vars, mean_vars, clean_vars>>

NextWindow == WNoIndex \/ WBetweenTime \/ WSpeedFilter \/ WReturn

SpecWindow == InitWindow /\ [][NextWindow]_vars

(***************************************************************************)
(* Properties of is_valid_window (checked under SpecWindow).               *)
(***************************************************************************)
Range(seq) == {seq[k] : k \in 1..Len(seq)}

\* the observations of the frame that meet the time and speed criteria
MeetsCriteria(r) ==
  /\ DAY_START_HOUR * 60 <= r.datetime.hour * 60 + r.datetime.minute
  /\ r.datetime.hour * 60 + r.datetime.minute <= DAY_END_HOUR * 60
  /\ r.wind_speed >= MIN_WIND_KNOTS

CriteriaCount == Cardinality({k \in 1..Len(w_df.rows) : MeetsCriteria(w_df.rows[k])})

\* a non-None span, an average speed and a mean direction
ReturnsWindow ==
  /\ w_out # Raised
  /\ ~IsNone(w_out.window)
  /\ w_out.avg \in Nat /\ w_out.dir \in 0..35999

\* (None, None, None)
ReturnsNone ==
  /\ w_out # Raised
  /\ IsNone(w_out.window) /\ IsNone(w_out.avg) /\ IsNone(w_out.dir)

SameOutcome(a, b) ==
  IF IsWindow(a) /\ IsWindow(b) THEN a = b
  ELSE IsWindow(a) = IsWindow(b) /\ (a = Raised) = (b = Raised)

\* C1: is_valid_window returns a window exactly when at least
\* MIN_BLOCK_LENGTH observations lie in the daytime range with a speed of at
\* least MIN_WIND_KNOTS; with MIN_BLOCK_LENGTH - 1 of them it returns
\* (None, None, None), with MIN_BLOCK_LENGTH a window.
C1_WindowIffEnough ==
  w_pc = "done" =>
    /\ ReturnsWindow <=> CriteriaCount >= MIN_BLOCK_LENGTH
    /\ CriteriaCount = MIN_BLOCK_LENGTH - 1 => ReturnsNone
    /\ CriteriaCount = MIN_BLOCK_LENGTH => ReturnsWindow

\* a frame larger than its qualifying subset, with exactly MIN_BLOCK_LENGTH
\* qualifying observations, has produced a window
C1_Witness ==
  /\ w_pc = "done"
  /\ CriteriaCount = MIN_BLOCK_LENGTH
  /\ Len(w_df.rows) > MIN_BLOCK_LENGTH
  /\ ReturnsWindow

AtDayBound(r) ==
  r.datetime.minute = 0 /\ r.datetime.hour \in {DAY_START_HOUR, DAY_END_HOUR}

JustOutsideDay(r) ==
  \/ r.datetime.hour = DAY_END_HOUR /\ r.datetime.minute = 1
  \/ r.datetime.hour = DAY_START_HOUR - 1 /\ r.datetime.minute = 59

NotJustOutsideDay(r) == ~JustOutsideDay(r)

\* C2: the daytime filter keeps an observation at exactly DAY_START_HOUR:00
\* or DAY_END_HOUR:00 and drops one a minute outside the range; a dropped
\* observation has no effect on the count, the average, the direction or the
\* span: the result is that of the frame without it.
C2_DayBoundsInclusive ==
  /\ w_pc \in {"daytime", "strong"} =>
       \A k \in 1..Len(w_df.rows) :
         /\ AtDayBound(w_df.rows[k]) /\ (w_pc = "daytime" \/ w_df.rows[k].wind_speed >= MIN_WIND_KNOTS)
              => w_df.rows[k] \in Range(w_sub)
         /\ JustOutsideDay(w_df.rows[k]) => w_df.rows[k] \notin Range(w_sub)
  /\ w_pc = "done" /\ w_df.datetimelike =>
       SameOutcome(w_out, is_valid_window([rows |-> SelectSeq(w_df.rows, NotJustOutsideDay),
                                           datetimelike |-> TRUE]))

\* a window made of the two bounds of the day, next to a strong observation
\* one minute after the end of the day
C2_Witness ==
  /\ w_pc = "done"
  /\ ReturnsWindow
  /\ CriteriaCount = MIN_BLOCK_LENGTH
  /\ \A k \in 1..Len(w_df.rows) : MeetsCriteria(w_df.rows[k]) => AtDayBound(w_df.rows[k])
  /\ \E k \in 1..Len(w_df.rows) :
       JustOutsideDay(w_df.rows[k]) /\ w_df.rows[k].wind_speed >= MIN_WIND_KNOTS

(***************************************************************************)
(* Properties of process_forecasts (checked under Spec).                   *)
(***************************************************************************)
\* process_forecasts has returned its table to main
Returned == pc = "ranked"

\* the site files of EXTRACT_DIR whose cleaned series yields a window
YieldsWindow(file) ==
  /\ file.csv
  /\ Readable(file.content)
  /\ LET o == SiteOutcome(file, today)
     IN  o # Raised /\ ~IsNone(o.window)

WindowFiles == SelectSeq(extract_dir, YieldsWindow)

Count(seq, Test(_)) == Cardinality({k \in 1..Len(seq) : Test(seq[k])})

\* every speed of the file is a number below MIN_WIND_KNOTS
AllBelow(file) ==
  /\ Readable(file.content)
  /\ \A k \in 1..Len(RowsOf(file.content)) :
       /\ RowsOf(file.content)[k].wind_speed # <<>>
       /\ RowsOf(file.content)[k].wind_speed[1] < MIN_WIND_KNOTS

\* C3: the Run Summary has an entry for a site exactly when a file of that
\* site yields a window: every site has as many entries as it has files with
\* a window, and a file whose speeds are all below MIN_WIND_KNOTS gives none.
C3_SummaryMembership ==
  Returned =>
    /\ \A n \in Sites :
         LET OfSite(x) == x.Site = n
             FileOfSite(f) == f.site = n
         IN  Count(df_summary, OfSite) = Count(WindowFiles, FileOfSite)
    /\ Len(df_summary) = Len(WindowFiles)
    /\ \A k \in 1..Len(extract_dir) : AllBelow(extract_dir[k]) => ~YieldsWindow(extract_dir[k])

\* two site files, the first calm and the second with a window: one entry,
\* for the second site
C3_Witness ==
  /\ Returned
  /\ Len(extract_dir) = 2
  /\ extract_dir[1].csv /\ AllBelow(extract_dir[1])
  /\ YieldsWindow(extract_dir[2])
  /\ extract_dir[1].site # extract_dir[2].site
  /\ Len(df_summary) = 1
  /\ df_summary[1].Site = extract_dir[2].site

\* a site file that raises while it is read, parsed or processed
Fails(file) ==
  /\ file.csv
  /\ \/ ~Readable(file.content)
     \/ SiteOutcome(file, today) = Raised

DoesNotFail(file) == ~Fails(file)

\* the blocks a directory without failing files gives, in visiting order
BlockOfFile(file) == Block(file, SiteOutcome(file, today))

ExpectedBlocks(files) ==
  LET w == SelectSeq(files, YieldsWindow)
  IN  [k \in 1..Len(w) |-> BlockOfFile(w[k])] \o <<>>

\* C4: a site file that raises is passed over and reported; the loop goes
\* on, and the table returned is one that the same directory without the
\* failing files gives.
C4_FailureIsolation ==
  /\ pc = "process" => idx <= Len(extract_dir)
  /\ Returned =>
       /\ idx = Len(extract_dir)
       /\ df_summary \in Rank(ExpectedBlocks(SelectSeq(extract_dir, DoesNotFail)))
       /\ Len(errors) = Count(extract_dir, Fails)

\* a failing file between two files with a window: both are in the table
C4_Witness ==
  /\ Returned
  /\ Len(extract_dir) = 3
  /\ YieldsWindow(extract_dir[1])
  /\ Fails(extract_dir[2])
  /\ YieldsWindow(extract_dir[3])
  /\ Len(df_summary) = 2
  /\ Len(errors) = 1

(***************************************************************************)
(* Properties of the ranker (checked under Spec).                          *)
(***************************************************************************)
Avgs == {df_summary[k].Avg : k \in 1..Len(df_summary)}

\* the durations of the table that are numbers, in minutes
Durations ==
  {Minutes(df_summary[k].Duration) :
     k \in {j \in 1..Len(df_summary) : ~IsNaN(df_summary[j].Duration)}}

ZeroRange ==
  \/ Len(df_summary) = 1
  \/ Cardinality(Avgs) = 1
  \/ Cardinality({df_summary[k].Duration : k \in 1..Len(df_summary)}) = 1

\* C5: when the table has one entry, or one average speed, or one duration,
\* process_forecasts does not return a table with a NaN in Norm_Wind,
\* Norm_Duration or Score.
C5_NoSilentNaN ==
  Returned /\ df_summary # <<>> /\ ZeroRange =>
    \A k \in 1..Len(df_summary) :
      /\ ~IsNaN(df_summary[k].Norm_Wind)
      /\ ~IsNaN(df_summary[k].Norm_Duration)
      /\ ~IsNaN(df_summary[k].Score)

\* C6: the table returned is in descending order of Score, each entry having
\* a Score at least that of the next one, and the CSV export lists the
\* entries in the order of the table.
C6_SortedByScore ==
  /\ Returned =>
       \A k \in 1..(Len(df_summary) - 1) :
         FracLeq(df_summary[k + 1].Score, df_summary[k].Score)
  /\ pc = "exported" =>
       /\ Len(csv) = 1
       /\ Len(csv[1]) = Len(df_summary)
       /\ \A k \in 1..Len(df_summary) :
            /\ csv[1][k][1] = df_summary[k].Site
            /\ csv[1][k][2] = df_summary[k].Window
            /\ csv[1][k][10] = df_summary[k].Score

\* the orders in which the files of EXTRACT_DIR can be visited
Reorderings ==
  LET n == Len(extract_dir)
      perms == {f \in [1..n -> 1..n] : \A i, j \in 1..n : i # j => f[i] # f[j]}
  IN  {[k \in 1..n |-> extract_dir[f[k]]] : f \in perms}

\* C7: the table is the same in whatever order the files are visited, and
\* entries of equal Score are in the order of their site names.
C7_DeterministicRanking ==
  Returned =>
    /\ \A k \in 1..(Len(df_summary) - 1) :
         FracEq(df_summary[k].Score, df_summary[k + 1].Score)
           => df_summary[k].Site <= df_summary[k + 1].Site
    /\ \A files \in Reorderings : Rank(ExpectedBlocks(files)) = {df_summary}

InUnitRange(f) == ~IsNaN(f) /\ 0 <= f.num /\ f.num <= f.den

\* C8: in a table with two distinct average speeds and two distinct
\* durations, Norm_Wind and Norm_Duration of every entry are the min-max
\* normalizations over all entries, lie in [0,1] with the minimum at 0 and
\* the maximum at 1, and Score is 0.6 Norm_Wind + 0.4 Norm_Duration.
C8_MinMaxScore ==
  Returned /\ Cardinality(Avgs) >= 2 /\ Cardinality(Durations) >= 2 =>
    \A k \in 1..Len(df_summary) :
      LET r == df_summary[k]
          nw == r.Norm_Wind
          nd == r.Norm_Duration
      IN  /\ InUnitRange(nw)
          /\ InUnitRange(nd)
          /\ nw.num * (Max(Avgs) - Min(Avgs)) = (r.Avg - Min(Avgs)) * nw.den
          /\ ~IsNaN(r.Duration)
          /\ nd.num * (Max(Durations) - Min(Durations))
               = (Minutes(r.Duration) - Min(Durations)) * nd.den
          /\ ~IsNaN(r.Score)
          /\ r.Score.num * 10 * nw.den * nd.den
               = (6 * nw.num * nd.den + 4 * nd.num * nw.den) * r.Score.den

\* the number written by two characters of a window string
Field(w, a) == 10 * DigitVal(w[a]) + DigitVal(w[a + 1])

\* C9: Start and End are on the day and month the window displays, End a day
\* later when its time of day is earlier than that of Start; End is not
\* before Start and the Duration is not negative.
C9_OvernightCorrection ==
  Returned =>
    \A k \in 1..Len(df_summary) :
      LET r == df_summary[k]
          w == r.Window
          midnight == (DaysBefore1900(Field(w, 4)) + Field(w, 1) - 1) * 24 * 60
          from == Field(w, 7) * 60 + Field(w, 10)
          to == Field(w, 13) * 60 + Field(w, 16)
      IN  /\ ~IsNaT(r.Start) /\ ~IsNaT(r.End)
          /\ r.Start.t = midnight + from
          /\ r.End.t = midnight + to + (IF to < from THEN 24 * 60 ELSE 0)
          /\ r.End.t >= r.Start.t
          /\ ~IsNaN(r.Duration)
          /\ Minutes(r.Duration) = r.End.t - r.Start.t
          /\ Minutes(r.Duration) >= 0

\* minutes from the earliest to the latest timestamp of the qualifying
\* subset of a file (both in the month of the run)
Elapsed(file) ==
  LET e == SpanOf(file, today)
  IN  (e.hi.day - e.lo.day) * 24 * 60 + TimeOfDay(e.hi) - TimeOfDay(e.lo)

StartsOnLeapDay(file) ==
  SpanOf(file, today).lo.month = 2 /\ SpanOf(file, today).lo.day = 29

\* the entry r is the entry of the file
EntryOf(r, file) ==
  r.Site = file.site /\ r.Window = SiteOutcome(file, today).window

Meeting == {k \in 1..Len(w_df.rows) : MeetsCriteria(w_df.rows[k])}

Earliest ==
  CHOOSE k \in Meeting :
    \A j \in Meeting : TsKey(w_df.rows[k].datetime) <= TsKey(w_df.rows[j].datetime)

Latest ==
  CHOOSE k \in Meeting :
    \A j \in Meeting : TsKey(w_df.rows[k].datetime) >= TsKey(w_df.rows[j].datetime)

MeetingSpeedSum ==
  SumSeq([k \in 1..Len(w_df.rows) |->
            IF k \in Meeting THEN w_df.rows[k].wind_speed ELSE 0])

\* a row that does not meet the criteria, in time between two that do
IsGap(k) ==
  /\ k \notin Meeting
  /\ TsKey(w_df.rows[Earliest].datetime) < TsKey(w_df.rows[k].datetime)
  /\ TsKey(w_df.rows[k].datetime) < TsKey(w_df.rows[Latest].datetime)

\* C11: the span of a window is the day, month and time of the earliest
\* qualifying timestamp and the time of the latest one, its average speed is
\* the mean of the qualifying speeds to the nearest tenth, and the rows that
\* do not qualify change nothing: the result is that of the qualifying rows
\* alone.
C11_SpanOfExtremes ==
  w_pc = "done" /\ ReturnsWindow =>
    LET lo == w_df.rows[Earliest].datetime
        hi == w_df.rows[Latest].datetime
        w == w_out.window
        n == Cardinality(Meeting)
        off == w_out.avg * n - 10 * MeetingSpeedSum
    IN  /\ Len(w) = 17
        /\ w[3] = "/" /\ w[6] = " " /\ w[9] = ":" /\ w[12] = "-" /\ w[15] = ":"
        /\ Field(w, 1) = lo.day /\ Field(w, 4) = lo.month
        /\ Field(w, 7) = lo.hour /\ Field(w, 10) = lo.minute
        /\ Field(w, 13) = hi.hour /\ Field(w, 16) = hi.minute
        /\ 2 * off <= n /\ 0 - n <= 2 * off
        /\ SameOutcome(w_out,
                       is_valid_window([rows |-> SelectSeq(w_df.rows, MeetsCriteria),
                                        datetimelike |-> TRUE]))

\* a window over two qualifying rows of different speeds with a row that
\* does not qualify between them
C11_Witness ==
  /\ w_pc = "done"
  /\ ReturnsWindow
  /\ \E k \in 1..Len(w_df.rows) : IsGap(k)
  /\ w_df.rows[Earliest].wind_speed # w_df.rows[Latest].wind_speed


(***************************************************************************)
(* parse_datetime on its own, for tokens of every shape.                   *)
(***************************************************************************)
\* text of two characters, or of another length, for the day and hour fields
DayFields ==
  {<<"0", "0">>, <<"0", "5">>, <<"2", "8">>, <<"2", "9">>, <<"3", "1">>,
   <<"3", "2">>, <<" ", "5">>, <<"x", "1">>}

HourFields ==
  {<<"0", "0">>, <<"1", "2">>, <<"2", "3">>, <<"2", "4">>, <<"1", "x">>, <<"7">>}

\* what follows the hour: nothing, two characters of minutes, or more or less
Tails ==
  {<<>>, <<"0", "0">>, <<"5", "9">>, <<"6", "0">>, <<"x", "0">>, <<"0">>,
   <<"0", "0", "0">>}

\* the values of the datetime_raw column
Tokens ==
  {<<"T", "h">> \o d \o <<".">> \o h \o t :
     d \in DayFields, h \in HourFields, t \in Tails}
  \cup {<<>>, <<"T", "h">>, <<"T", "h", "2", "8">>}

InitParse ==
  /\ today \in Todays
  /\ RunIdle
  /\ WindowIdle
  /\ MeanIdle
  /\ CleanIdle
  /\ p_val \in Tokens
  /\ p_pc = "call"
  /\ p_out = None

\* lines 8-14: the value returned; the bare except lets nothing out
PParse ==
  /\ p_pc = "call"
  /\ p_out' = parse_datetime(p_val, today)
  /\ p_pc' = "done"
  /\ UNCHANGED <<p_val, pipeline_vars, window_vars, mean_vars, clean_vars>>

NextParse == PParse

SpecParse == InitParse /\ [][NextParse]_vars

(***************************************************************************)
(* Properties of parse_datetime (checked under SpecParse).                 *)
(***************************************************************************)
\* the 1-based positions of the day, hour and minute fields of a token
FieldPositions(v) == {3, 4, 6, 7} \cup (IF Len(v) = 9 THEN {8, 9} ELSE {})

WrongLength(v) == Len(v) \notin {7, 9}

NonDigitField(v) == \E k \in FieldPositions(v) : k <= Len(v) /\ ~IsDigit(v[k])

DigitFields(v) == ~WrongLength(v) /\ ~NonDigitField(v)

DayOf(v) == Field(v, 3)

HourOf(v) == Field(v, 6)

MinuteOf(v) == IF Len(v) = 9 THEN Field(v, 8) ELSE 0

Malformed(v) ==
  \/ WrongLength(v)
  \/ NonDigitField(v)
  \/ DigitFields(v) /\ (HourOf(v) > 23 \/ DayOf(v) > 31)

\* C12: parse_datetime ends without raising, and for a token of the wrong
\* length, with a character other than a digit in a day, hour or minute
\* position, with an hour above 23 or with a day above 31 it returns None.
C12_MalformedIsNone ==
  /\ p_pc \in {"call", "done"}
  /\ p_pc = "done" /\ Malformed(p_val) => IsNone(p_out)

\* C13: for a token of 7 or 9 characters whose fields are digits that write
\* a day of the current month, an hour up to 23 and, for 9 characters, a
\* minute up to 59, the timestamp returned has that day, hour and minute
\* (minute 0 for 7 characters) and the year and month of today.
C13_RoundTrip ==
  (/\ p_pc = "done"
   /\ DigitFields(p_val)
   /\ DayOf(p_val) \in 1..DaysInMonth(today.year, today.month)
   /\ HourOf(p_val) <= 23
   /\ MinuteOf(p_val) <= 59)
  => p_out = [year |-> today.year, month |-> today.month, day |-> DayOf(p_val),
              hour |-> HourOf(p_val), minute |-> MinuteOf(p_val)]

C13_Witness ==
  /\ p_pc = "done"
  /\ p_val = Token(29, 23, 59)
  /\ today = [year |-> 2024, month |-> 2]
  /\ p_out = [year |-> 2024, month |-> 2, day |-> 29, hour |-> 23, minute |-> 59]


(***************************************************************************)
(* Lines 91-98 of process_forecasts on their own, line by line, for every  *)
(* small file.                                                             *)
(***************************************************************************)
\* rows of a file: three with a token that parses and three numbers (one of
\* them calm), one with a token that does not parse, and one for each
\* measurement that is no number
RawRows ==
  {Row(28, 10, 0, 16, 0), Row(28, 12, 0, 20, 90), Row(28, 14, 0, 10, 0),
   [datetime_raw |-> <<"T", "h", "x", "x", ".", "0", "8", "0", "0">>,
    wind_speed |-> <<30>>, wind_dir |-> <<180>>, wind_gust |-> <<33>>],
   [datetime_raw |-> Token(28, 8, 0), wind_speed |-> <<>>,
    wind_dir |-> <<180>>, wind_gust |-> <<33>>],
   [datetime_raw |-> Token(28, 19, 0), wind_speed |-> <<30>>,
    wind_dir |-> <<>>, wind_gust |-> <<33>>],
   [datetime_raw |-> Token(28, 19, 30), wind_speed |-> <<30>>,
    wind_dir |-> <<180>>, wind_gust |-> <<>>]}

\* line 91: what pd.read_csv returned
InitClean ==
  /\ PipelineIdle
  /\ WindowIdle
  /\ ParseIdle
  /\ MeanIdle
  /\ c_raw \in UNION {[1..n -> RawRows] : n \in 0..MaxRows}
  /\ c_pc = "read"
  /\ c_df = [rows |-> <<>>, datetimelike |-> FALSE]
  /\ c_out = NotCalled

\* line 92: df["datetime"] = df["datetime_raw"].apply(parse_datetime)
CParse ==
  /\ c_pc = "read"
  /\ c_df' = [rows |-> Parsed(c_raw, today),
              datetimelike |-> \E k \in 1..Len(c_raw) :
                                 HasDatetime(Parsed(c_raw, today)[k])]
  /\ c_pc' = "parsed"
  /\ UNCHANGED <<c_raw, c_out, pipeline_vars, window_vars, parse_vars, mean_vars>>

\* line 93: df = df.dropna(subset=["datetime"])
CDropDatetime ==
  /\ c_pc = "parsed"
  /\ c_df' = [c_df EXCEPT !.rows = SelectSeq(c_df.rows, HasDatetime)]
  /\ c_pc' = "dated"
  /\ UNCHANGED <<c_raw, c_out, pipeline_vars, window_vars, parse_vars, mean_vars>>

\* lines 94-95: pd.to_numeric(errors='coerce') on the three columns, dropna()
CToNumeric ==
  /\ c_pc = "dated"
  /\ LET kept == SelectSeq(c_df.rows, AllNumeric)
     IN  c_df' = [c_df EXCEPT !.rows = [k \in 1..Len(kept) |-> Numeric(kept[k])]]
  /\ c_pc' = "numeric"
  /\ UNCHANGED <<c_raw, c_out, pipeline_vars, window_vars, parse_vars, mean_vars>>

\* line 98: window, avg, dir_mean = is_valid_window(df, config)
CDetect ==
  /\ c_pc = "numeric"
  /\ c_out' = is_valid_window(c_df)
  /\ c_pc' = "done"
  /\ UNCHANGED <<c_raw, c_df, pipeline_vars, window_vars, parse_vars, mean_vars>>

NextClean == CParse \/ CDropDatetime \/ CToNumeric \/ CDetect

SpecClean == InitClean /\ [][NextClean]_vars

(***************************************************************************)
(* Properties of the row cleaning (checked under SpecClean).               *)
(***************************************************************************)
\* a row of the file with a token that parse_datetime parses and a number in
\* each of the three measurements
ValidRaw(r) ==
  /\ ~IsNone(parse_datetime(r.datetime_raw, today))
  /\ r.wind_speed # <<>>
  /\ r.wind_dir # <<>>
  /\ r.wind_gust # <<>>

ValidRows == SelectSeq(c_raw, ValidRaw)

\* the valid rows of the file, in the order of the file, as observations
ValidObservations ==
  [k \in 1..Len(ValidRows) |->
     [datetime |-> parse_datetime(ValidRows[k].datetime_raw, today),
      wind_speed |-> ValidRows[k].wind_speed[1],
      wind_dir |-> ValidRows[k].wind_dir[1],
      wind_gust |-> ValidRows[k].wind_gust[1]]]

\* C14: the frame handed to the window detection holds exactly the rows of
\* the file that are valid in all four fields, in the order of the file, and
\* the window, the average speed and the mean direction returned are those
\* of the valid rows alone.
C14_AllOrNothing ==
  /\ c_pc \in {"numeric", "done"} => c_df.rows = ValidObservations
  /\ c_pc = "done" /\ c_out # Raised
       => c_out = WindowOf(Qualifying(ValidObservations))

C14_Witness ==
  /\ c_pc = "done"
  /\ \E k \in 1..Len(c_raw) : ~ValidRaw(c_raw[k]) /\ c_raw[k].wind_speed = <<30>>
  /\ IsWindow(c_out)
  /\ c_out.avg = 180


(***************************************************************************)
(* Runs of main one after the other on the same machine: the files under   *)
(* EXTRACT_DIR, GRAPH_DIR and output/ stay from one run to the next.       *)
(***************************************************************************)
MaxRuns == 2

\* the archives the site can publish in the runs of the model
RunArchives ==
  {<<>>,
   <<[csv |-> TRUE, site |-> 1, content |-> ContentOf[1]]>>,
   <<[csv |-> TRUE, site |-> 3, content |-> ContentOf[3]],
     [csv |-> FALSE, site |-> 1, content |-> ContentOf[1]]>>,
   <<[csv |-> TRUE, site |-> 4, content |-> ContentOf[4]],
     [csv |-> TRUE, site |-> 5, content |-> ContentOf[5]]>>}

DownloadOkRuns == Extract(RunArchives)

\* main has ended, by returning or by an exception that nothing caught
Ended == pc \in {"done", "raised"}

\* the program is started again: the variables of main and of
\* process_forecasts are new, the files on disk are those the last run left
NewRun ==
  /\ Ended
  /\ run < MaxRuns
  /\ run' = run + 1
  /\ download' = "none"
  /\ pc' = "start"
  /\ idx' = 0
  /\ summary_blocks' = <<>>
  /\ df_summary' = <<>>
  /\ errors' = <<>>
  /\ effects' = <<>>
  /\ UNCHANGED <<today, extract_dir, graphs, csv, html>>
  /\ UNCHANGED unit_vars

NextRuns ==
  \/ DownloadRaises
  \/ DownloadNot200
  \/ DownloadOkRuns
  \/ SkipFile
  \/ ProcessFile
  \/ RankSummary
  \/ NoWind
  \/ ExportCsv
  \/ GenerateReport
  \/ NewRun

SpecRuns == Init /\ [][NextRuns]_vars

(***************************************************************************)
(* Properties of a run (checked under Spec).                               *)
(***************************************************************************)
\* C15: when no file of the directory yields a window, process_forecasts
\* returns an empty table, and the run ends without an error, with the
\* fallback page written and neither the CSV export nor the full report.
C15_EmptyIsNotAnError ==
  /\ Returned /\ WindowFiles = <<>> => df_summary = <<>>
  /\ Ended /\ download # "raised" /\ WindowFiles = <<>>
       => pc = "done" /\ html = "fallback" /\ csv = <<>>


\* C16: no site has more than one entry in the table process_forecasts
\* returns.
C16_OneEntryPerSite ==
  Returned =>
    \A i, j \in 1..Len(df_summary) :
      df_summary[i].Site = df_summary[j].Site => i = j


\* C17: the files a run processes are those of the archive the same run
\* fetched: a run whose download did not fetch an archive processes no file.
C17_NoCrossRunState == idx > 0 => download = "ok"


(***************************************************************************)
(* circular_mean on its own, for every short series of directions.         *)
(***************************************************************************)
MaxDirs == 4

MeanDirs == {0, 10, 90, 180, 270, 350, 359}

\* when the unit vectors cancel, the floating-point sums are rounding noise
\* (sin(pi) is 1.2e-16, not 0) and arctan2 returns the direction of the
\* noise: any angle, here in tenths of a degree
NoiseAngles == {10 * k : k \in 0..3599}

\* the values circular_mean can return.  For no direction at all np.sum is
\* 0.0 twice, arctan2(0.0, 0.0) is 0.0 and (0.0 + 360) % 360 is 0.0.
CircularMeans(degrees_series) ==
  LET sin_sum == SumSeq([k \in 1..Len(degrees_series) |-> SinOf(degrees_series[k])])
      cos_sum == SumSeq([k \in 1..Len(degrees_series) |-> CosOf(degrees_series[k])])
  IN  IF degrees_series = <<>> THEN {0}
      ELSE IF sin_sum = 0 /\ cos_sum = 0 THEN NoiseAngles
      ELSE {circular_mean(degrees_series)}

InitMean ==
  /\ PipelineIdle
  /\ WindowIdle
  /\ ParseIdle
  /\ CleanIdle
  /\ m_series \in UNION {[1..n -> MeanDirs] : n \in 0..MaxDirs}
  /\ m_pc = "call"
  /\ m_out = 0

\* lines 17-21: nothing in them raises for a series of numbers
MCall ==
  /\ m_pc = "call"
  /\ m_out' \in CircularMeans(m_series)
  /\ m_pc' = "done"
  /\ UNCHANGED <<m_series, pipeline_vars, window_vars, parse_vars, clean_vars>>

NextMean == MCall

SpecMean == InitMean /\ [][NextMean]_vars

(***************************************************************************)
(* Properties of circular_mean (checked under SpecMean).                   *)
(***************************************************************************)
\* the sum of the unit vectors of the series, in ten-thousandths
SineSum == SumSeq([k \in 1..Len(m_series) |-> SinOf(m_series[k])])

CosineSum == SumSeq([k \in 1..Len(m_series) |-> CosOf(m_series[k])])

\* the direction of the vector (x, y) is less than a degree away from the
\* degree that starts at the whole degree d
InDegree(x, y, d) ==
  /\ y * CosOf(d + 359) - x * SinOf(d + 359) > 0
  /\ y * CosOf(d + 2) - x * SinOf(d + 2) < 0
  /\ x * CosOf(d) + y * SinOf(d) > 0

\* C18: for a series that is not empty the value returned is in [0, 360) and
\* is the direction of the sum of the unit vectors, to the degree; for 350
\* and 10 degrees it is 0 to within a degree, not 180; a series whose
\* vectors cancel returns a value in [0, 360) too.
C18_Wraparound ==
  m_pc = "done" /\ m_series # <<>> =>
    /\ m_out \in 0..35999
    /\ SineSum # 0 \/ CosineSum # 0 => InDegree(CosineSum, SineSum, m_out \div 100)
    /\ m_series = <<350, 10>> => m_out < 100 \/ m_out > 35900

C18_Witness ==
  /\ m_pc = "done"
  /\ m_series = <<350, 10>>
  /\ m_out = 0

\* C19: circular_mean of no direction at all ends with an error, not with a
\* number.
C19_EmptyRaises == m_pc # "call" /\ m_series = <<>> => m_pc = "raised"


\* the outcome of the file of a site
OutcomeOfSite(site) ==
  SiteOutcome([csv |-> TRUE, site |-> site, content |-> ContentOf[site]], today)

\* C20: the Dir of every entry of the table is the whole number nearest to
\* the circular mean of the directions of the site's qualifying subset, and
\* it is a direction: at least 0 and less than 360.
C20_DirIsDirection ==
  Returned =>
    \A k \in 1..Len(df_summary) :
      LET dir_mean == OutcomeOfSite(df_summary[k].Site).dir
          off == 100 * df_summary[k].Dir - dir_mean
      IN  /\ 2 * off <= 100 /\ 0 - 100 <= 2 * off
          /\ df_summary[k].Dir \in 0..359


\* C21: ci_generate_report.main ends without raising and with one page
\* written at HTML_REPORT: when the download raises no file is processed and
\* the page is the fallback; when the table is empty the page is the fallback
\* and nothing is exported; otherwise the CSV export is written and the page
\* is the full report.
C21_AlwaysOneReport ==
  Ended =>
    /\ pc = "done"
    /\ html \in {"fallback", "report"}
    /\ download = "raised" => idx = 0 /\ html = "fallback"
    /\ download # "raised" /\ df_summary = <<>> => html = "fallback" /\ csv = <<>>
    /\ download # "raised" /\ df_summary # <<>>
         => html = "report" /\ csv = <<to_csv(df_summary)>>


(***************************************************************************)
(* main.main (main.py), with process_forecasts unfolded as above.  The     *)
(* variable effects lists what the run wrote and sent, in order.           *)
(***************************************************************************)
\* config.py line 9
TABLE_ROWS_PER_IMAGE == 15

\* plot_utils.py line 72: the parameters of create_collage
CreateCollageParams ==
  {"df", "graph_dir", "output_path_1", "top_n", "cols", "max_dim_px"}

\* main.py lines 35-41: the keyword arguments of the call of create_collage
CollageKeywords == {"top_n", "graphs_per_collage"}

\* dataframe_to_image: one image for every max_rows rows of the table
dataframe_to_image(rows, max_rows) ==
  [k \in 1..((Len(rows) + max_rows - 1) \div max_rows) |-> "table_image"]

\* create_collage: one image when a row of the table has its plot under
\* GRAPH_DIR, None otherwise
create_collage(rows, plots) ==
  IF \E k \in 1..Len(rows) : rows[k].Site \in plots
  THEN <<"collage_image">> ELSE <<>>

\* send_images_only: the table images, then the collage images
send_images_only(table_imgs, collage_imgs) ==
  [k \in 1..Len(table_imgs) |-> "send_table_image"]
  \o [k \in 1..Len(collage_imgs) |-> "send_collage_image"]

\* main.py lines 11-15: the download raises, main prints and returns
MainDownloadRaises ==
  /\ pc = "start"
  /\ download' = "raised"
  /\ pc' = "done"
  /\ UNCHANGED <<today, run, extract_dir, idx, summary_blocks, df_summary,
                 graphs, errors, csv, html, effects>>
  /\ UNCHANGED unit_vars

\* main.py lines 23-25
MainNoWind ==
  /\ pc = "ranked"
  /\ df_summary = <<>>
  /\ pc' = "done"
  /\ UNCHANGED <<today, run, download, extract_dir, idx, summary_blocks,
                 df_summary, graphs, errors, csv, html, effects>>
  /\ UNCHANGED unit_vars

\* main.py lines 27-28
MainExportCsv ==
  /\ pc = "ranked"
  /\ df_summary # <<>>
  /\ csv' = <<to_csv(df_summary)>>
  /\ effects' = Append(effects, "csv")
  /\ pc' = "exported"
  /\ UNCHANGED <<today, run, download, extract_dir, idx, summary_blocks,
                 df_summary, graphs, errors, html>>
  /\ UNCHANGED unit_vars

\* main.py lines 30-31
RenderTable ==
  /\ pc = "exported"
  /\ effects' = Append(effects, "table")
  /\ pc' = "tabled"
  /\ UNCHANGED <<today, run, download, extract_dir, idx, summary_blocks,
                 df_summary, graphs, errors, csv, html>>
  /\ UNCHANGED unit_vars

\* main.py lines 33-54: the collage, the report and the messages.  A keyword
\* that create_collage does not have raises TypeError at the call, a key
\* that CONFIG does not have raises KeyError at line 43.
CollageReportSend ==
  /\ pc = "tabled"
  /\ LET table_imgs == dataframe_to_image(df_summary, TABLE_ROWS_PER_IMAGE)
         collage_imgs == create_collage(df_summary, graphs)
         sends == IF {"BOT_TOKEN", "CHAT_ID"} \subseteq CONFIG_KEYS
                  THEN <<"send_document">> \o send_images_only(table_imgs, collage_imgs)
                  ELSE <<>>
     IN  IF ~(CollageKeywords \subseteq CreateCollageParams)
         THEN pc' = "raised" /\ UNCHANGED <<html, effects>>
         ELSE IF "HTML_REPORT" \notin CONFIG_KEYS
         THEN pc' = "raised" /\ effects' = Append(effects, "collage") /\ UNCHANGED html
         ELSE /\ pc' = "done"
              /\ html' = "report"
              /\ effects' = effects \o <<"collage", "html">> \o sends
  /\ UNCHANGED <<today, run, download, extract_dir, idx, summary_blocks,
                 df_summary, graphs, errors, csv>>
  /\ UNCHANGED unit_vars

NextMain ==
  \/ MainDownloadRaises
  \/ DownloadNot200
  \/ DownloadOk
  \/ SkipFile
  \/ ProcessFile
  \/ RankSummary
  \/ MainNoWind
  \/ MainExportCsv
  \/ RenderTable
  \/ CollageReportSend

SpecMain == Init /\ [][NextMain]_vars

(***************************************************************************)
(* Properties of main.main (checked under SpecMain).                       *)
(***************************************************************************)
\* the messages a run sent to Telegram
Sent ==
  SelectSeq(effects,
            LAMBDA e : e \in {"send_document", "send_table_image", "send_collage_image"})

\* C22: when the download does not raise and the table is not empty, main
\* ends without raising after the CSV export, the table images, the collage
\* and the HTML report, in this order, and then sends the report, every
\* table image and every collage image, in this order; a run whose download
\* raised or whose table is empty sends nothing.
C22_SuccessPath ==
  Ended =>
    /\ download # "raised" /\ df_summary # <<>> =>
         /\ pc = "done"
         /\ SelectSeq(effects, LAMBDA e : e \notin Range(Sent))
              = <<"csv", "table", "collage", "html">>
         /\ \E nt, nc \in 1..Len(df_summary) :
              effects = <<"csv", "table", "collage", "html", "send_document">>
                        \o [k \in 1..nt |-> "send_table_image"]
                        \o [k \in 1..nc |-> "send_collage_image"]
    /\ download = "raised" \/ df_summary = <<>> => Sent = <<>>

====
